---- MODULE Spec2Model ----
(***************************************************************************)
(* Model of the conversational agent of src/agent.py: the answer cache     *)
(* (memory.json), the LangGraph turn graph retriever -> assistant ->       *)
(* tool_executor / save_answer -> END, the tool dispatcher and the CLI     *)
(* loop that drives one turn at a time.                                    *)
(*                                                                         *)
(* Text is a sequence of one-character strings where the code looks at     *)
(* characters (questions and queries), and a sequence of string fragments  *)
(* where it only builds or copies text (answers, error texts).             *)
(***************************************************************************)
EXTENDS Integers, Sequences, FiniteSets, TLC

\* ------------------------------------------------------------------ bounds

\* Largest number of tool calls carried by one assistant message.
MaxCalls == 3

\* --------------------------------------------------------------- constants

\* agent.py:16 sets 1000; the model scales the capacity down so that a full
\* store and its truncation are reached.
MAX_MEMORY == 2

\* ------------------------------------------------------------------- text

Last(s) == s[Len(s)]

\* str.lower() on the characters the inputs are built from.
Lower(c) ==
    CASE c = "A" -> "a"
      [] c = "B" -> "b"
      [] c = "C" -> "c"
      [] c = "D" -> "d"
      [] c = "E" -> "e"
      [] c = "X" -> "x"
      [] c = "I" -> "i"
      [] c = "T" -> "t"
      [] OTHER -> c

LowerText(s) == [i \in 1..Len(s) |-> Lower(s[i])]

IsSpace(c) == c \in {" ", "\t"}

\* str.strip(): drop leading and trailing whitespace.
Strip(s) ==
    LET keep == {i \in 1..Len(s) : ~IsSpace(s[i])}
    IN  IF keep = {} THEN <<>>
        ELSE LET lo == CHOOSE i \in keep : \A j \in keep : i <= j
                 hi == CHOOSE i \in keep : \A j \in keep : j <= i
             IN  SubSeq(s, lo, hi)

\* .strip().lower() as applied to the query and to every stored question.
Normalize(s) == LowerText(Strip(s))

\* ------------------------------------------- difflib.SequenceMatcher.ratio

\* Length of the common run of a[i..ahi-1] and b[j..bhi-1] starting at (i, j).
RECURSIVE RunLen(_, _, _, _, _, _)
RunLen(a, b, i, j, ahi, bhi) ==
    IF i < ahi /\ j < bhi /\ a[i] = b[j]
    THEN 1 + RunLen(a, b, i + 1, j + 1, ahi, bhi)
    ELSE 0

\* find_longest_match(alo, ahi, blo, bhi) without junk: the longest block,
\* of those the one starting earliest in a, of those the one earliest in b.
\* Positions are 1-based, the ranges half-open as in difflib.
FindLongestMatch(a, b, alo, ahi, blo, bhi) ==
    LET cand == (alo..(ahi - 1)) \X (blo..(bhi - 1))
        size(p) == RunLen(a, b, p[1], p[2], ahi, bhi)
        hits == {p \in cand : a[p[1]] = b[p[2]]}
    IN  IF hits = {} THEN <<alo, blo, 0>>
        ELSE LET best == CHOOSE p \in hits :
                     \A q \in hits :
                         \/ size(p) > size(q)
                         \/ /\ size(p) = size(q)
                            /\ \/ p[1] < q[1]
                               \/ p[1] = q[1] /\ p[2] <= q[2]
             IN  <<best[1], best[2], size(best)>>

\* Sum of the sizes of get_matching_blocks(): the longest match, then the
\* pieces to its left and to its right, recursively.
RECURSIVE Matches(_, _, _, _, _, _)
Matches(a, b, alo, ahi, blo, bhi) ==
    LET m == FindLongestMatch(a, b, alo, ahi, blo, bhi)
        i == m[1]
        j == m[2]
        k == m[3]
    IN  IF k = 0 THEN 0
        ELSE k
             + (IF alo < i /\ blo < j THEN Matches(a, b, alo, i, blo, j) ELSE 0)
             + (IF i + k < ahi /\ j + k < bhi
                THEN Matches(a, b, i + k, ahi, j + k, bhi) ELSE 0)

\* ratio() = 2.0 * matches / (len(a) + len(b)), and 1.0 for two empty strings,
\* kept as the exact fraction <<numerator, denominator>>.
Ratio(a, b) ==
    LET length == Len(a) + Len(b)
    IN  IF length = 0 THEN <<1, 1>>
        ELSE <<2 * Matches(a, b, 1, Len(a) + 1, 1, Len(b) + 1), length>>

\* Mutant of AboveThreshold: a threshold of 0.95.
AboveThreshold_strict(r) == 100 * r[1] > 95 * r[2]

\* Mutant of AboveThreshold: the comparison >= 0.9.
AboveThreshold_inclusive(r) == 10 * r[1] >= 9 * r[2]

\* similarity > 0.9 on that fraction.
AboveThreshold(r) == 10 * r[1] > 9 * r[2]

\* Mutant of Similarity: the stored question is compared as it was typed.
Similarity_raw(question, query) == Ratio(question, query)

\* The ratio of the stored question, stripped and lowercased, and the query.
Similarity(question, query) == Ratio(Normalize(question), query)

\* --------------------------------------------------------------- messages

\* SystemMessage(content=system_prompt): the prompt file read once at start.
sys_msg ==
    [type |-> "system", content |-> <<"system_prompt">>,
     tool_calls |-> <<>>, tool_call_id |-> <<>>]

HumanMessage(c) ==
    [type |-> "human", content |-> c, tool_calls |-> <<>>, tool_call_id |-> <<>>]

\* AIMessage(content=c): built without tool calls, so tool_calls is empty.
AIMessage(c) ==
    [type |-> "ai", content |-> c, tool_calls |-> <<>>, tool_call_id |-> <<>>]

ToolMessage(c, id) ==
    [type |-> "tool", content |-> c, tool_calls |-> <<>>, tool_call_id |-> id]

\* ------------------------------------------------------------- memory.json

\* The file: absent, present but not JSON, or the JSON list of entries.
\* json.dump followed by json.load returns a list of {question, answer}
\* string records as it was, so a parseable file is held as that list.
AbsentFile == [exists |-> FALSE, parseable |-> FALSE, entries |-> <<>>]
GarbledFile == [exists |-> TRUE, parseable |-> FALSE, entries |-> <<>>]
ListFile(entries) == [exists |-> TRUE, parseable |-> TRUE, entries |-> entries]

Entry(q, a) == [question |-> q, answer |-> a]

\* load_memory(): [] when the path does not exist, otherwise json.load, which
\* raises on a file that is not JSON.
load_memory(f) ==
    IF f.exists
    THEN IF f.parseable
         THEN [raised |-> FALSE, memory |-> f.entries]
         ELSE [raised |-> TRUE, memory |-> <<>>]
    ELSE [raised |-> FALSE, memory |-> <<>>]

\* memory[-MAX_MEMORY:]
LastN(memory, n) ==
    IF Len(memory) <= n THEN memory
    ELSE SubSeq(memory, Len(memory) - n + 1, Len(memory))

\* Mutant of save_memory: the entry is appended twice.
save_memory_twice(f, entry) ==
    LET loaded == load_memory(f)
        appended == Append(Append(loaded.memory, entry), entry)
        memory == IF Len(appended) > MAX_MEMORY
                  THEN LastN(appended, MAX_MEMORY)
                  ELSE appended
    IN  IF loaded.raised
        THEN [raised |-> TRUE, file |-> f]
        ELSE [raised |-> FALSE, file |-> ListFile(memory)]

\* Mutant of save_memory: the new entry is put in front of the list.
save_memory_front(f, entry) ==
    LET loaded == load_memory(f)
        inserted == <<entry>> \o loaded.memory
        memory == IF Len(inserted) > MAX_MEMORY
                  THEN LastN(inserted, MAX_MEMORY)
                  ELSE inserted
    IN  IF loaded.raised
        THEN [raised |-> TRUE, file |-> f]
        ELSE [raised |-> FALSE, file |-> ListFile(memory)]

\* Mutant of save_memory: the append without the truncation.
save_memory_untruncated(f, entry) ==
    LET loaded == load_memory(f)
    IN  IF loaded.raised
        THEN [raised |-> TRUE, file |-> f]
        ELSE [raised |-> FALSE, file |-> ListFile(Append(loaded.memory, entry))]

\* save_memory(entry): load, append, truncate to the newest MAX_MEMORY, write.
\* A load that raises leaves the file as it is.
save_memory(f, entry) ==
    LET loaded == load_memory(f)
        appended == Append(loaded.memory, entry)
        memory == IF Len(appended) > MAX_MEMORY
                  THEN LastN(appended, MAX_MEMORY)
                  ELSE appended
    IN  IF loaded.raised
        THEN [raised |-> TRUE, file |-> f]
        ELSE [raised |-> FALSE, file |-> ListFile(memory)]

\* ------------------------------------------------------------------- tools

\* The names of the list `tools` the executor is built from.
RegisteredTools ==
    {"multiply", "add", "subtract", "divide", "modulus", "wiki_search",
     "web_search", "arvix_search", "get_youtube_transcript", "transcribe_audio"}

ArithmeticTools == {"multiply", "add", "subtract", "divide", "modulus"}

\* What a tool returns: an int, a float (divide; kept as the fraction a/b),
\* a string, or a dict with one named field.
IntValue(n) == [kind |-> "int", v |-> n]
FloatValue(a, b) == [kind |-> "float", v |-> <<a, b>>]
StrValue(t) == [kind |-> "str", v |-> t]
DictValue(key, t) == [kind |-> "dict", v |-> <<key>> \o t]

Returned(value) == [raised |-> FALSE, value |-> value]
Raised(text) == [raised |-> TRUE, value |-> StrValue(text)]

\* tool.run(args). The arithmetic tools are functions of a and b; divide
\* raises ValueError on a zero divisor and modulus ZeroDivisionError. A search
\* tool returns its documents or raises, as the network decides (env). Arguments
\* that are not the tool's parameters fail its input validation.
ToolRun(name, args, env) ==
    IF name \in ArithmeticTools
    THEN IF DOMAIN args # {"a", "b"}
         THEN Raised(<<"validation error">>)
         ELSE CASE name = "multiply" -> Returned(IntValue(args.a * args.b))
                [] name = "add" -> Returned(IntValue(args.a + args.b))
                [] name = "subtract" -> Returned(IntValue(args.a - args.b))
                [] name = "divide" ->
                     IF args.b = 0
                     THEN Raised(<<"Cannot divide by zero.">>)
                     ELSE Returned(FloatValue(args.a, args.b))
                [] name = "modulus" ->
                     IF args.b = 0
                     THEN Raised(<<"integer modulo by zero">>)
                     ELSE Returned(IntValue(args.a % args.b))
    ELSE IF DOMAIN args # {"query"}
         THEN Raised(<<"validation error">>)
         ELSE IF env = "ok"
              THEN Returned(DictValue(name, <<"documents for ">> \o args.query))
              ELSE Raised(<<"connection failed">>)

\* Mutant of InvokeCall: the exception of tool.run is not caught.
InvokeCall_uncaught(call, env) ==
    IF call.name \in RegisteredTools
    THEN ToolRun(call.name, call.args, env)
    ELSE [raised |-> FALSE,
          value |-> StrValue(<<"Tool ", call.name, " not found.">>)]

\* One pass of the loop of invoke: the result appended for `call`. An unknown
\* name gives the "not found" text; an exception of tool.run is caught and its
\* text is the result, so a pass never raises.
InvokeCall(call, env) ==
    IF call.name \in RegisteredTools
    THEN LET ran == ToolRun(call.name, call.args, env)
         IN  IF ran.raised
             THEN [raised |-> FALSE, value |-> ran.value]
             ELSE [raised |-> FALSE, value |-> ran.value]
    ELSE [raised |-> FALSE,
          value |-> StrValue(<<"Tool ", call.name, " not found.">>)]

\* SimpleToolExecutor.invoke(tool_calls): one result per call, in call order;
\* env[i] is what the network does during the i-th call. An exception that
\* escapes a pass would end the loop and leave invoke.
Invoke(tool_calls, env) ==
    LET pass == [i \in 1..Len(tool_calls) |-> InvokeCall(tool_calls[i], env[i])]
    IN  [raised |-> \E i \in 1..Len(tool_calls) : pass[i].raised,
         results |-> [i \in 1..Len(tool_calls) |-> pass[i].value]]

\* json.dumps(result) for the values the tools return.
JsonDumps(value) ==
    CASE value.kind = "int" -> <<ToString(value.v)>>
      [] value.kind = "float" ->
           <<ToString(value.v[1] \div value.v[2]), ".",
             IF value.v[1] % value.v[2] = 0 THEN "0" ELSE "5">>
      [] value.kind = "str" -> <<"\"">> \o value.v \o <<"\"">>
      [] value.kind = "dict" ->
           <<"{\"", Head(value.v), "\": \"">> \o Tail(value.v) \o <<"\"}">>

\* ------------------------------------------------------------------ inputs

\* One string as its characters.
Q_abcde == <<"a", "b", "c", "d", "e">>
Q_abcdef == <<"a", "b", "c", "d", "e", "f">>
Q_abcdefg == <<"a", "b", "c", "d", "e", "f", "g">>
Q_ABCDE_padded == <<" ", "A", "B", "C", "D", "E", " ">>
Q_abcdefghij == <<"a", "b", "c", "d", "e", "f", "g", "h", "i", "j">>
Q_abcdefghix == <<"a", "b", "c", "d", "e", "f", "g", "h", "i", "x">>
Q_empty == <<>>
Q_exit == <<"e", "x", "i", "t">>
Q_EXIT == <<"E", "X", "I", "T">>

\* What the user may type at the prompt. abcde/abcdef and abcdef/abcdefg are
\* more than 0.9 similar, abcde/abcdefg are not; the two ten-letter questions
\* are exactly 0.9 similar; the padded upper-case one normalizes to abcde.
UserInputs ==
    {Q_abcde, Q_abcdef, Q_abcdefg, Q_ABCDE_padded, Q_abcdefghij, Q_abcdefghix,
     Q_empty, Q_exit, Q_EXIT}

ToolCall(id, name, args) == [id |-> id, name |-> name, args |-> args]

\* Calls a model may ask for: a valid one, one that raises, one to a search
\* tool, one with arguments the tool does not take, one to an unknown tool.
CallPool ==
    {[name |-> "add", args |-> [a |-> 2, b |-> 2]],
     [name |-> "divide", args |-> [a |-> 1, b |-> 2]],
     [name |-> "divide", args |-> [a |-> 1, b |-> 0]],
     [name |-> "wiki_search", args |-> [query |-> <<"q">>]],
     [name |-> "modulus", args |-> [query |-> <<"q">>]],
     [name |-> "lookup", args |-> [query |-> <<"q">>]]}

CallId(i) == <<"call_", i>>

\* The lists of at most MaxCalls calls, the i-th with the id of its position.
CallLists ==
    UNION {{[i \in 1..n |-> ToolCall(CallId(i), c[i].name, c[i].args)] :
                c \in [1..n -> CallPool]} : n \in 0..MaxCalls}

\* What llm_with_tools.invoke(prompt) may do: raise, return a string, or
\* return a dict with or without "generated_text". tool_calls are the tool
\* invocations the output asks for.
ModelRaised ==
    [raised |-> TRUE, kind |-> "none", text |-> <<>>, tool_calls |-> <<>>]
ModelStr(t, calls) ==
    [raised |-> FALSE, kind |-> "str", text |-> t, tool_calls |-> calls]
ModelDict(t, calls) ==
    [raised |-> FALSE, kind |-> "dict", text |-> t, tool_calls |-> calls]
ModelDictNoText(t, calls) ==
    [raised |-> FALSE, kind |-> "dict_no_text", text |-> t, tool_calls |-> calls]
NoResponse ==
    [raised |-> FALSE, kind |-> "none", text |-> <<>>, tool_calls |-> <<>>]

AddTwoTwo == <<ToolCall(CallId(1), "add", [a |-> 2, b |-> 2])>>

ModelOutcomes ==
    {ModelRaised,
     ModelStr(<<"4">>, <<>>),
     ModelStr(<<"I will call add(2, 2)">>, AddTwoTwo),
     ModelDict(<<"7">>, <<>>),
     ModelDictNoText(<<"'error': 'loading'">>, AddTwoTwo)}

\* response.get("generated_text", str(response)) for a dict, str(response)
\* otherwise; str() of a dict is its repr in braces.
ResponseText(response) ==
    CASE response.kind = "dict" -> response.text
      [] response.kind = "dict_no_text" -> <<"{">> \o response.text \o <<"}">>
      [] OTHER -> response.text

\* ------------------------------------------------------------------- state

VARIABLES
    pc,                      \* where the program is: the CLI loop or a graph node
    messages,                \* state["messages"]
    retrieved_answer_found,  \* state["retrieved_answer_found"]: "None", "True", "False"
    file,                    \* memory.json
    user_input,              \* the line read by the CLI loop
    output,                  \* the text last printed after "Bot: "
    prompt,                  \* the prompt last sent to the model
    response,                \* what the model last returned
    results,                 \* what the tool executor last returned
    path,                    \* the graph nodes run so far in this turn
    fileAtStart,             \* memory.json as it was when the turn started
    conversation,            \* the conversation app.invoke was called with
    previous                 \* the turn before this one: its input, what was
                             \* printed for it and the nodes it ran

vars ==
    <<pc, messages, retrieved_answer_found, file, user_input, output, prompt,
      response, results, path, fileAtStart, conversation, previous>>

\* The record of a turn kept while the next one runs.
Turn(question, answer, nodes) ==
    [question |-> question, answer |-> answer, path |-> nodes]

NoTurn == Turn(<<>>, <<>>, <<>>)

\* -------------------------------------------------------------- graph nodes

\* Mutant of FirstMatch: a global-best search, the matching position of the
\* highest similarity (the first of them on a tie).
FirstMatch_best(memory, query) ==
    LET above == {i \in 1..Len(memory) :
                     AboveThreshold(Similarity(memory[i].question, query))}
        Better(i, j) ==
            LET ri == Similarity(memory[i].question, query)
                rj == Similarity(memory[j].question, query)
            IN  ri[1] * rj[2] > rj[1] * ri[2]
        best == {i \in above : \A j \in above : ~Better(j, i)}
    IN  IF above = {} THEN 0
        ELSE CHOOSE i \in best : \A j \in best : i <= j

\* Mutant of FirstMatch: the last matching position instead of the first.
FirstMatch_last(memory, query) ==
    LET above == {i \in 1..Len(memory) :
                     AboveThreshold(Similarity(memory[i].question, query))}
    IN  IF above = {} THEN 0
        ELSE CHOOSE i \in above : \A j \in above : j <= i

\* The first position in store order whose question is more than 0.9 similar
\* to the query, 0 when there is none: the loop of retriever.
FirstMatch(memory, query) ==
    LET above == {i \in 1..Len(memory) :
                     AboveThreshold(Similarity(memory[i].question, query))}
    IN  IF above = {} THEN 0
        ELSE CHOOSE i \in above : \A j \in above : i <= j

\* Mutant of RetrieverEdge: the flag is ignored.
RetrieverEdge_always_assistant(found) == "assistant"

\* The conditional edge out of retriever.
RetrieverEdge(found) == IF found = "True" THEN "END" ELSE "assistant"

\* should_continue(state).
should_continue(found, msgs) ==
    IF found = "True" THEN "end"
    ELSE IF Last(msgs).type = "ai" /\ Last(msgs).tool_calls # <<>>
         THEN "tool_executor"
         ELSE "save_answer"

\* The conditional edge out of assistant: its map has no target for "end".
AssistantEdge(route) ==
    IF route \in {"tool_executor", "save_answer"} THEN route ELSE "crashed"

\* "\n".join of the contents of sys_msg and the conversation, kept as the
\* list of the joined contents.
Prompt(msgs) == [i \in 1..(Len(msgs) + 1) |->
                    IF i = 1 THEN sys_msg.content ELSE msgs[i - 1].content]

\* Mutant of LastHumanContent: the search runs forward and stops at the first
\* HumanMessage.
LastHumanContent_first(msgs) ==
    LET humans == {i \in 1..Len(msgs) : msgs[i].type = "human"}
    IN  IF humans = {} THEN <<>>
        ELSE msgs[CHOOSE i \in humans : \A j \in humans : i <= j].content

\* The question save_answer_node stores: the content of the last HumanMessage,
\* "" when the conversation has none.
LastHumanContent(msgs) ==
    LET humans == {i \in 1..Len(msgs) : msgs[i].type = "human"}
    IN  IF humans = {} THEN <<>>
        ELSE msgs[CHOOSE i \in humans : \A j \in humans : j <= i].content

\* retriever(state): the query is the normalized content of the last message;
\* a hit replaces the conversation by sys_msg and the cached answer and ends
\* the turn, a miss hands the conversation to assistant. A load that raises
\* ends the program.
retriever ==
    /\ pc = "retriever"
    /\ LET query == Normalize(Last(messages).content)
           loaded == load_memory(file)
           hit == FirstMatch(loaded.memory, query)
       IN  IF loaded.raised
           THEN /\ pc' = "crashed"
                /\ UNCHANGED <<messages, retrieved_answer_found>>
           ELSE IF hit # 0
                THEN /\ messages' = <<sys_msg, AIMessage(loaded.memory[hit].answer)>>
                     /\ retrieved_answer_found' = "True"
                     /\ pc' = RetrieverEdge("True")
                ELSE /\ messages' = messages
                     /\ retrieved_answer_found' = "False"
                     /\ pc' = RetrieverEdge("False")
    /\ path' = Append(path, "retriever")
    /\ UNCHANGED <<file, user_input, output, prompt, response, results, fileAtStart,
                   conversation, previous>>

\* Mutant of AssistantStep: the AIMessage keeps the tool calls the model's
\* output asks for.
AssistantStep_keep_calls(r) ==
    /\ prompt' = Prompt(messages)
    /\ response' = r
    /\ IF r.raised
       THEN /\ pc' = "crashed"
            /\ UNCHANGED <<messages, retrieved_answer_found>>
       ELSE /\ messages' = Append(messages,
                                  [AIMessage(ResponseText(r))
                                      EXCEPT !.tool_calls = r.tool_calls])
            /\ retrieved_answer_found' = "False"
            /\ pc' = AssistantEdge(should_continue("False", messages'))

\* Mutant of AssistantStep: a failed model call is turned into an answer.
AssistantStep_swallow(r) ==
    /\ prompt' = Prompt(messages)
    /\ response' = r
    /\ messages' = Append(messages, AIMessage(IF r.raised THEN <<"model error">>
                                                          ELSE r.text))
    /\ retrieved_answer_found' = "False"
    /\ pc' = "save_answer"

\* What assistant does with the model's outcome r: a raise ends the program,
\* a return is appended as an AIMessage and should_continue picks the next node.
AssistantStep(r) ==
    /\ prompt' = Prompt(messages)
    /\ response' = r
    /\ IF r.raised
       THEN /\ pc' = "crashed"
            /\ UNCHANGED <<messages, retrieved_answer_found>>
       ELSE /\ messages' = Append(messages, AIMessage(ResponseText(r)))
            /\ retrieved_answer_found' = "False"
            /\ pc' = AssistantEdge(should_continue("False", messages'))

\* assistant(state).
assistant ==
    /\ pc = "assistant"
    /\ \E r \in ModelOutcomes : AssistantStep(r)
    /\ path' = Append(path, "assistant")
    /\ UNCHANGED <<file, user_input, output, results, fileAtStart, conversation,
                   previous>>

\* Mutant of ToolMessages: every message is tagged with the id of the first call.
ToolMessages_first_id(tool_calls, res) ==
    [i \in 1..Len(tool_calls) |-> ToolMessage(JsonDumps(res[i]), tool_calls[1].id)]

\* The ToolMessages tool_executor_node builds from the calls and the results.
ToolMessages(tool_calls, res) ==
    [i \in 1..Len(tool_calls) |-> ToolMessage(JsonDumps(res[i]), tool_calls[i].id)]

\* tool_executor_node(state): the state as it is unless the last message is
\* an AIMessage with tool calls; otherwise one ToolMessage per call is appended.
\* The edge out of it leads to assistant.
tool_executor_node ==
    /\ pc = "tool_executor"
    /\ IF Last(messages).type # "ai" \/ Last(messages).tool_calls = <<>>
       THEN /\ pc' = "assistant"
            /\ UNCHANGED <<messages, retrieved_answer_found, results>>
       ELSE \E env \in [1..Len(Last(messages).tool_calls) -> {"ok", "fails"}] :
               LET invoked == Invoke(Last(messages).tool_calls, env)
               IN  IF invoked.raised
                   THEN /\ pc' = "crashed"
                        /\ UNCHANGED <<messages, retrieved_answer_found, results>>
                   ELSE /\ results' = invoked.results
                        /\ messages' = messages \o
                               ToolMessages(Last(messages).tool_calls, invoked.results)
                        /\ retrieved_answer_found' = "False"
                        /\ pc' = "assistant"
    /\ path' = Append(path, "tool_executor")
    /\ UNCHANGED <<file, user_input, output, prompt, response, fileAtStart,
                   conversation, previous>>

\* save_answer_node(state): store (last human question, last content); the
\* edge out of it leads to END. A save that raises ends the program.
save_answer_node ==
    /\ pc = "save_answer"
    /\ LET saved == save_memory(file, Entry(LastHumanContent(messages),
                                           Last(messages).content))
       IN  /\ file' = saved.file
           /\ pc' = IF saved.raised THEN "crashed" ELSE "END"
    /\ path' = Append(path, "save_answer")
    /\ UNCHANGED <<messages, retrieved_answer_found, user_input, output, prompt,
                   response, results, fileAtStart, conversation, previous>>

\* -------------------------------------------------------------------- CLI

\* One pass of the loop up to app.invoke: read a line, say goodbye and stop on
\* "exit", otherwise start a turn on the conversation [HumanMessage(user_input)].
\* The records of the previous turn (prompt, response, results, output, path)
\* are cleared as the new pass starts and kept in `previous`.
main_input ==
    /\ pc = "input"
    /\ \E u \in UserInputs :
          /\ user_input' = u
          /\ IF LowerText(u) = Q_exit
             THEN /\ pc' = "exited"
                  /\ output' = <<"Gorusmek uzere!">>
                  /\ UNCHANGED <<messages, retrieved_answer_found, conversation>>
             ELSE /\ pc' = "retriever"
                  /\ output' = <<>>
                  /\ messages' = <<HumanMessage(u)>>
                  /\ conversation' = <<HumanMessage(u)>>
                  /\ retrieved_answer_found' = "None"
    /\ previous' = Turn(user_input, output, path)
    /\ prompt' = <<>>
    /\ response' = NoResponse
    /\ results' = <<>>
    /\ path' = <<>>
    /\ fileAtStart' = file
    /\ UNCHANGED file

\* The rest of the pass: print the content of the last message of the result.
main_print ==
    /\ pc = "END"
    /\ output' = Last(messages).content
    /\ pc' = "input"
    /\ UNCHANGED <<messages, retrieved_answer_found, file, user_input, prompt,
                   response, results, path, fileAtStart, conversation, previous>>

\* ----------------------------------------------------------- specifications

\* The files the program may find when it starts.
InitialFiles == {AbsentFile, GarbledFile, ListFile(<<>>)}

Init ==
    /\ pc = "input"
    /\ messages = <<>>
    /\ retrieved_answer_found = "None"
    /\ file \in InitialFiles
    /\ user_input = <<>>
    /\ output = <<>>
    /\ prompt = <<>>
    /\ response = NoResponse
    /\ results = <<>>
    /\ path = <<>>
    /\ fileAtStart = file
    /\ conversation = messages
    /\ previous = NoTurn

\* The program as run from the command line. tool_executor_node is a node of
\* the graph that no turn reaches; it is exercised by SpecNodes below.
Next ==
    \/ main_input
    \/ retriever
    \/ assistant
    \/ save_answer_node
    \/ main_print

Spec == Init /\ [][Next]_vars

\* The command-line program with every node that is entered run to its end:
\* each external call (the model, the file system) returns or raises.
\* For retriever, which is enabled exactly when pc = "retriever" and always
\* leaves it, weak fairness is stated in its equivalent form without ENABLED:
\* the program is not at "retriever" for ever.
RetrieverReturns == []<>(pc # "retriever")

SpecFair ==
    /\ Spec
    /\ RetrieverReturns
    /\ WF_vars(assistant)
    /\ WF_vars(save_answer_node)

\* An AIMessage as a tool-calling model's output is represented: content and
\* the tool calls it carries.
AIMessageWithCalls(c, calls) ==
    [type |-> "ai", content |-> c, tool_calls |-> calls, tool_call_id |-> <<>>]

\* The conversations tool_executor_node is applied to: a question followed by
\* an assistant message with 0..MaxCalls tool calls, or the question alone.
NodeConversations ==
    {<<HumanMessage(Q_abcde)>>}
    \cup {<<HumanMessage(Q_abcde), AIMessageWithCalls(<<"calling tools">>, calls)>> :
            calls \in CallLists}

\* The graph entered at tool_executor with such a conversation.
InitNodes ==
    /\ pc = "tool_executor"
    /\ messages \in NodeConversations
    /\ retrieved_answer_found = "False"
    /\ file \in InitialFiles
    /\ user_input = Q_abcde
    /\ output = <<>>
    /\ prompt = <<>>
    /\ response = NoResponse
    /\ results = <<>>
    /\ path = <<>>
    /\ fileAtStart = file
    /\ conversation = messages
    /\ previous = NoTurn

NextNodes ==
    \/ tool_executor_node
    \/ assistant
    \/ save_answer_node

SpecNodes == InitNodes /\ [][NextNodes]_vars

\* The conversations a caller of the compiled graph hands to app.invoke: the
\* state is any non-empty list of messages, of which the command-line loop
\* only ever builds the first kind. A single question, a question asked after
\* an earlier exchange, and an exchange whose last message is the assistant's.
InvokeConversations ==
    {<<HumanMessage(Q_abcde)>>,
     <<HumanMessage(Q_abcdefghij)>>,
     <<HumanMessage(Q_abcdefghij), AIMessage(<<"4">>), HumanMessage(Q_abcde)>>,
     <<HumanMessage(Q_abcde), AIMessage(<<"4">>)>>}

\* app.invoke({"messages": conversation}): the graph starts at its entry
\* point, retriever, on the conversation it is given.
app_invoke ==
    /\ pc = "input"
    /\ \E c \in InvokeConversations :
          /\ messages' = c
          /\ conversation' = c
    /\ pc' = "retriever"
    /\ retrieved_answer_found' = "None"
    /\ previous' = Turn(LastHumanContent(conversation), output, path)
    /\ output' = <<>>
    /\ prompt' = <<>>
    /\ response' = NoResponse
    /\ results' = <<>>
    /\ path' = <<>>
    /\ fileAtStart' = file
    /\ UNCHANGED <<file, user_input>>

\* The compiled graph called again and again by a caller that reads the last
\* message of each result.
NextInvoke ==
    \/ app_invoke
    \/ retriever
    \/ assistant
    \/ save_answer_node
    \/ main_print

SpecInvoke == Init /\ [][NextInvoke]_vars

\* save_memory cut short (the process is killed, the disk fills up) while
\* save_answer_node runs it. It writes in place: open(MEMORY_PATH, "w")
\* empties the file and json.dump then writes the list piece by piece. Cut
\* before the open the file is as it was; cut between the open and the end of
\* the dump it is empty or holds the beginning of a list, which json.load
\* rejects; cut after the dump it holds the new list. The program ends there.
save_memory_interrupted ==
    /\ pc = "save_answer"
    /\ LET saved == save_memory(file, Entry(LastHumanContent(messages),
                                           Last(messages).content))
       IN  file' \in {file, GarbledFile, saved.file}
    /\ pc' = "crashed"
    /\ path' = Append(path, "save_answer")
    /\ UNCHANGED <<messages, retrieved_answer_found, user_input, output, prompt,
                   response, results, fileAtStart, conversation, previous>>

\* The command-line program in an environment where a save can be cut short.
NextCrash ==
    \/ main_input
    \/ retriever
    \/ assistant
    \/ save_answer_node
    \/ save_memory_interrupted
    \/ main_print

SpecCrash == Init /\ [][NextCrash]_vars

\* ------------------------------------------------- get_youtube_transcript

\* Largest number of captions of a fetched transcript.
MaxCaptions == 2

\* tools.py:139 sets 15000; the model scales the limit down so that
\* transcripts below, at and above it are reached.
max_chars == 5

\* A URL is the sequence of the pieces the code tells apart: "/", "?", "&",
\* "#", a parameter name with its "=", and the text between them.
UrlPool ==
    {<<"https:", "/", "/", "www.youtube.com", "/", "watch", "?", "v=", "ID1">>,
     <<"https:", "/", "/", "www.youtube.com", "/", "watch", "?", "t=", "1", "&", "v=", "ID2">>,
     <<"https:", "/", "/", "www.youtube.com", "/", "watch", "?", "v=", "ID1", "&", "v=", "ID2">>,
     <<"https:", "/", "/", "www.youtube.com", "/", "watch", "?", "v=", "ID1", "#", "top">>,
     <<"https:", "/", "/", "youtu.be", "/", "ID1">>,
     <<"https:", "/", "/", "youtu.be", "/", "ID2", "?", "t=", "1">>,
     <<"youtu.be">>,
     <<"https:", "/", "/", "youtu.be", "/">>,
     <<"https:", "/", "/", "www.youtube.com", "/", "watch">>,
     <<"https:", "/", "/", "www.youtube.com", "/", "watch", "?", "v=">>,
     <<"https:", "/", "/", "www.youtube.com", "/", "watch", "?", "t=", "1">>,
     <<>>}

Positions(url, piece) == {i \in 1..Len(url) : url[i] = piece}

Greatest(S) == CHOOSE i \in S : \A j \in S : j <= i

Smallest(S) == CHOOSE i \in S : \A j \in S : i <= j

\* url.split(sep)[-1]
AfterLast(url, sep) ==
    IF Positions(url, sep) = {} THEN url
    ELSE SubSeq(url, Greatest(Positions(url, sep)) + 1, Len(url))

\* url.split(sep)[0]
BeforeFirst(url, sep) ==
    IF Positions(url, sep) = {} THEN url
    ELSE SubSeq(url, 1, Smallest(Positions(url, sep)) - 1)

\* url split at the first sep: what follows it, empty when there is no sep.
AfterFirst(url, sep) ==
    IF Positions(url, sep) = {} THEN <<>>
    ELSE SubSeq(url, Smallest(Positions(url, sep)) + 1, Len(url))

\* urlparse(url).query: between the first "?" and the fragment.
UrlQuery(url) == AfterFirst(BeforeFirst(url, "#"), "?")

\* parse_qs(query)['v']: the values of the parameters named v, blank ones
\* dropped, as the positions of the values in the query.
VValues(query) ==
    {i \in 2..Len(query) :
        /\ query[i - 1] = "v="
        /\ query[i] \notin {"&", "v=", "t="}}

\* _get_video_id_from_url(url): the last path piece of a youtu.be link without
\* its query, else the first v parameter, else None (the empty sequence here;
\* the caller treats both alike).
get_video_id_from_url(url) ==
    IF Positions(url, "youtu.be") # {}
    THEN BeforeFirst(AfterLast(url, "/"), "?")
    ELSE LET query == UrlQuery(url)
         IN  IF VValues(query) # {}
             THEN <<query[Smallest(VValues(query))]>>
             ELSE <<>>

\* The caption texts a transcript is made of.
CaptionPool == {<<"h", "i">>, <<"y", "o", "u">>, <<>>}

\* What YouTubeTranscriptApi.get_transcript may do: raise, or return a list
\* of at most MaxCaptions captions.
FetchFailed == [ok |-> FALSE, items |-> <<>>]
FetchOutcomes ==
    {FetchFailed}
    \cup UNION {{[ok |-> TRUE, items |-> c] : c \in [1..n -> CaptionPool]} :
                   n \in 0..MaxCaptions}

\* " ".join(texts)
RECURSIVE JoinSpace(_)
JoinSpace(items) ==
    IF items = <<>> THEN <<>>
    ELSE IF Len(items) = 1 THEN items[1]
    ELSE items[1] \o <<" ">> \o JoinSpace(Tail(items))

\* _get_transcript(video_id): the joined captions, None when the fetch raises.
get_transcript(fetch) ==
    IF fetch.ok
    THEN [none |-> FALSE, text |-> JoinSpace(fetch.items)]
    ELSE [none |-> TRUE, text |-> <<>>]

\* get_youtube_transcript(video_url): the error text for a URL without a video
\* id; otherwise len(transcript) is taken, which raises TypeError on None; a
\* transcript longer than max_chars is cut and the notice appended.
get_youtube_transcript(video_url, fetch) ==
    LET video_id == get_video_id_from_url(video_url)
        transcript == get_transcript(fetch)
    IN  IF video_id = <<>>
        THEN Returned(StrValue(<<"HATA: Gecersiz YouTube URL'si.">>))
        ELSE IF transcript.none
             THEN Raised(<<"object of type 'NoneType' has no len()">>)
             ELSE IF Len(transcript.text) > max_chars
                  THEN Returned(StrValue(SubSeq(transcript.text, 1, max_chars)
                                         \o <<"[...NOT: kirpilmistir...]">>))
                  ELSE Returned(StrValue(transcript.text))

\* The tool called on its own with a URL: pc is "transcript" before the call,
\* "transcript_returned" or "transcript_raised" after it; user_input holds the
\* URL, response the outcome of the fetch and results the value returned.
InitTranscript ==
    /\ pc = "transcript"
    /\ user_input \in UrlPool
    /\ messages = <<>>
    /\ retrieved_answer_found = "None"
    /\ file = AbsentFile
    /\ output = <<>>
    /\ prompt = <<>>
    /\ response = FetchFailed
    /\ results = <<>>
    /\ path = <<>>
    /\ fileAtStart = file
    /\ conversation = <<>>
    /\ previous = NoTurn

run_get_youtube_transcript ==
    /\ pc = "transcript"
    /\ \E fetch \in FetchOutcomes :
          LET ran == get_youtube_transcript(user_input, fetch)
          IN  /\ response' = IF get_video_id_from_url(user_input) = <<>>
                            THEN response ELSE fetch
              /\ results' = <<ran.value>>
              /\ pc' = IF ran.raised THEN "transcript_raised"
                                     ELSE "transcript_returned"
    /\ UNCHANGED <<messages, retrieved_answer_found, file, user_input, output,
                   prompt, path, fileAtStart, conversation, previous>>

SpecTranscript == InitTranscript /\ [][run_get_youtube_transcript]_vars

\* ------------------------------------------------------------- properties

\* The positions of `entries` whose question, normalized, is more than 0.9
\* similar to the normalized text q (20 * matches > 9 * total length).
Matching(entries, q) ==
    {i \in 1..Len(entries) :
        LET r == Ratio(Normalize(entries[i].question), Normalize(q))
        IN  10 * r[1] > 9 * r[2]}

Readable(f) == ~f.exists \/ f.parseable

Least(S) == CHOOSE i \in S : \A j \in S : i <= j

\* C1: a turn whose lookup finds a stored entry more than 0.9 similar to the
\* query goes from the retriever straight to END: the retriever is the only
\* node run, no model call and no tool executor call has been made, and
\* memory.json is as it was when the turn started.
C1_CacheHitShortcut ==
    [][(/\ pc = "retriever"
        /\ Readable(file)
        /\ Matching(file.entries, user_input) # {})
       => (/\ pc' = "END"
           /\ path' = <<"retriever">>
           /\ response' = NoResponse
           /\ prompt' = <<>>
           /\ results' = <<>>
           /\ file' = fileAtStart')]_vars

C1_Witness ==
    /\ pc = "END"
    /\ retrieved_answer_found = "True"
    /\ path = <<"retriever">>
    /\ fileAtStart.entries # <<>>

\* C2 as claimed: when a turn ends on a cache hit, the content of the last
\* message equals the answer of every stored entry that is more than 0.9
\* similar to the query.
C2_EveryMatchingAnswer ==
    (pc = "END" /\ retrieved_answer_found = "True")
    => \A i \in Matching(fileAtStart.entries, user_input) :
          Last(messages).content = fileAtStart.entries[i].answer

\* C2 as amended: when the store holds entries more than 0.9 similar to the
\* query, the turn ends with the content of the last message equal to the
\* answer of the oldest of them.
C2_OldestMatchingAnswer ==
    (pc = "END" /\ Matching(fileAtStart.entries, user_input) # {})
    => Last(messages).content =
          fileAtStart.entries[Least(Matching(fileAtStart.entries, user_input))].answer

C2_Witness ==
    /\ pc = "END"
    /\ retrieved_answer_found = "True"
    /\ Cardinality(Matching(fileAtStart.entries, user_input)) = 2
    /\ fileAtStart.entries[1].answer # fileAtStart.entries[2].answer

\* C3 as claimed: after a model call that returns, the next node is
\* tool_executor when the output asks for tool calls and save_answer only
\* when it asks for none.
C3_ModelToolCycle ==
    [][(pc = "assistant" /\ ~response'.raised)
       => pc' = IF response'.tool_calls # <<>> THEN "tool_executor"
                                               ELSE "save_answer"]_vars

\* C4: applied to a conversation whose last message is an assistant message
\* with N >= 1 tool calls, tool_executor_node appends exactly N tool messages,
\* the i-th with the id of the i-th call and the JSON text of the i-th result,
\* leaves the earlier messages as they were, and assistant runs next; after
\* assistant has appended a message without tool calls, save_answer runs next.
C4_LoopStepShape ==
    [][/\ (pc = "tool_executor" /\ Last(messages).type = "ai"
              /\ Last(messages).tool_calls # <<>>)
          => LET calls == Last(messages).tool_calls
                 n == Len(calls)
                 old == Len(messages)
             IN  /\ pc' = "assistant"
                 /\ Len(messages') = old + n
                 /\ SubSeq(messages', 1, old) = messages
                 /\ Len(results') = n
                 /\ \A i \in 1..n :
                       /\ messages'[old + i].type = "tool"
                       /\ messages'[old + i].tool_call_id = calls[i].id
                       /\ messages'[old + i].content = JsonDumps(results'[i])
                       /\ (calls[i].name = "add" /\ calls[i].args = [a |-> 2, b |-> 2])
                             => messages'[old + i].content = <<"4">>
                       /\ calls[i].name = "lookup"
                             => messages'[old + i].content =
                                   <<"\"", "Tool ", "lookup", " not found.", "\"">>
       /\ (pc = "assistant" /\ pc' # "crashed" /\ Last(messages').tool_calls = <<>>)
          => pc' = "save_answer"]_vars

C4_Witness ==
    /\ pc = "assistant"
    /\ path = <<"tool_executor">>
    /\ Len(messages) = 5
    /\ messages[2].type = "ai"
    /\ Len(messages[2].tool_calls) = 3
    /\ \A i \in 3..5 : messages[i].type = "tool"

\* The result the i-th call of a batch must have whatever its siblings do.
ExpectedResults(call) ==
    IF call.name \notin RegisteredTools
    THEN {StrValue(<<"Tool ", call.name, " not found.">>)}
    ELSE IF call.name = "add" THEN {IntValue(4)}
    ELSE IF call.name = "divide" /\ call.args.b = 0
         THEN {StrValue(<<"Cannot divide by zero.">>)}
    ELSE IF call.name = "divide" THEN {FloatValue(1, 2)}
    ELSE IF call.name = "modulus" THEN {StrValue(<<"validation error">>)}
    ELSE {DictValue("wiki_search", <<"documents for ", "q">>),
          StrValue(<<"connection failed">>)}

\* C5: invoke returns one result per call in call order; an unknown tool gives
\* the "not found" text at its position, a tool that raises gives the text of
\* its exception at its position, every other call has its normal result, and
\* invoke does not raise.
C5_ToolBatchIsolation ==
    (path # <<>> /\ path[1] = "tool_executor" /\ Len(messages) >= 2)
    => LET calls == messages[2].tool_calls
       IN  /\ ~(pc = "crashed" /\ path = <<"tool_executor">>)
           /\ Len(results) = Len(calls)
           /\ \A i \in 1..Len(calls) : results[i] \in ExpectedResults(calls[i])

\* [valid, unknown, raising] gives [4, not found, text of the ValueError].
C5_Witness ==
    /\ path = <<"tool_executor">>
    /\ Len(messages) = 5
    /\ messages[2].tool_calls[1].name = "add"
    /\ messages[2].tool_calls[2].name = "lookup"
    /\ messages[2].tool_calls[3] =
          ToolCall(CallId(3), "divide", [a |-> 1, b |-> 0])
    /\ results = <<IntValue(4),
                   StrValue(<<"Tool ", "lookup", " not found.">>),
                   StrValue(<<"Cannot divide by zero.">>)>>

\* C6: memory.json never holds more than MAX_MEMORY entries, and a save into
\* a store of exactly MAX_MEMORY entries leaves MAX_MEMORY entries: the old
\* ones without the oldest, then the new one, the oldest no longer present.
C6_CacheBound ==
    /\ [](Len(file.entries) <= MAX_MEMORY)
    /\ [][(pc = "save_answer" /\ file.parseable /\ Len(file.entries) = MAX_MEMORY)
          => /\ Len(file'.entries) = MAX_MEMORY
             /\ file'.entries =
                   Append(Tail(file.entries),
                          Entry(user_input, Last(messages).content))
             /\ \A k \in 1..MAX_MEMORY : file'.entries[k] # file.entries[1]]_vars

C6_Witness ==
    /\ pc = "END"
    /\ Last(path) = "save_answer"
    /\ Len(fileAtStart.entries) = MAX_MEMORY
    /\ Len(file.entries) = MAX_MEMORY
    /\ file # fileAtStart

\* C7: save_answer never appends a question that had a stored question more
\* than 0.9 similar to it when the turn started, and no stored question is
\* more than 0.9 similar to a question stored after it.
C7_NoDuplicateStorage ==
    /\ [](\A j \in 1..Len(file.entries) :
             \A i \in Matching(file.entries, file.entries[j].question) : i >= j)
    /\ [][(pc = "save_answer" /\ file' # file)
          => Matching(fileAtStart.entries, Last(file'.entries).question) = {}]_vars

\* A near-duplicate of a stored question was asked and nothing was appended.
C7_Witness ==
    /\ pc = "END"
    /\ Len(file.entries) = 2
    /\ file = fileAtStart
    /\ \A i \in 1..2 : file.entries[i].question # user_input
    /\ Matching(file.entries, user_input) # {}

\* C8: when no stored question is more than 0.9 similar to the query (the
\* store may be empty or absent, a similarity may be exactly 0.9), the
\* retriever leaves the conversation as it is, sets the flag to false and
\* assistant runs next.
C8_CacheMissPassthrough ==
    [][(pc = "retriever" /\ Readable(file)
           /\ Matching(file.entries, user_input) = {})
       => (/\ messages' = messages
           /\ retrieved_answer_found' = "False"
           /\ pc' = "assistant")]_vars

\* A miss against a stored question that is exactly 0.9 similar.
C8_Witness ==
    /\ pc = "assistant"
    /\ path = <<"retriever">>
    /\ retrieved_answer_found = "False"
    /\ \E i \in 1..Len(file.entries) :
          LET r == Ratio(Normalize(file.entries[i].question), Normalize(user_input))
          IN  10 * r[1] = 9 * r[2]

\* C9 as claimed: with memory.json absent or not parseable, the retriever
\* goes on as on an empty store (a miss, assistant next) and save_answer
\* writes a store holding the new entry alone.
C9_CacheReadSoftFail ==
    [][/\ (pc = "retriever" /\ (~file.exists \/ ~file.parseable))
          => (pc' = "assistant" /\ retrieved_answer_found' = "False")
       /\ (pc = "save_answer" /\ (~file.exists \/ ~file.parseable))
          => file' = ListFile(<<Entry(user_input, Last(messages).content)>>)]_vars

\* C10: a model call that raises ends the turn and the program with
\* memory.json as it was when the turn started, and nothing runs after it.
C10_NoPartialSave ==
    /\ [][(pc = "assistant" /\ response'.raised)
          => (pc' = "crashed" /\ file' = fileAtStart)]_vars
    /\ [][pc = "crashed" => file' = file]_vars
    /\ []((pc = "crashed" /\ response.raised)
             => (file = fileAtStart /\ path = <<"retriever", "assistant">>))

C10_Witness ==
    /\ pc = "crashed"
    /\ response.raised
    /\ Len(fileAtStart.entries) = 1
    /\ file = fileAtStart

\* C11 as claimed: whatever the URL and whatever the fetch does,
\* get_youtube_transcript returns a string and does not raise.
C11_TranscriptNeverThrows ==
    /\ pc # "transcript_raised"
    /\ pc = "transcript_returned" => results[1].kind = "str"

\* The position of the most recent Human message of a conversation, 0 when it
\* has none.
MostRecentHuman(msgs) ==
    LET humans == {i \in 1..Len(msgs) : msgs[i].type = "human"}
    IN  IF humans = {} THEN 0 ELSE CHOOSE i \in humans : \A j \in humans : j <= i

\* C12: the save step makes the pair (content of the most recent Human message,
\* content of the last message) the newest entry of the cache, in front of
\* which the older entries stay as they were; it leaves the conversation and
\* the flag as they are and ends the turn.
C12_SavePairing ==
    [][pc = "save_answer" =>
         /\ MostRecentHuman(messages) # 0
         /\ file'.parseable
         /\ file'.entries # <<>>
         /\ Last(file'.entries) =
                Entry(messages[MostRecentHuman(messages)].content,
                      Last(messages).content)
         /\ \E k \in 0..Len(file.entries) :
                file'.entries =
                    SubSeq(file.entries, k + 1, Len(file.entries))
                        \o <<Last(file'.entries)>>
         /\ messages' = messages
         /\ retrieved_answer_found' = retrieved_answer_found
         /\ pc' = "END"]_vars

\* C12's case: a turn on a conversation with two different Human messages has
\* been saved, and the cache already held an entry before it.
C12_Witness ==
    /\ pc = "END"
    /\ path = <<"retriever", "assistant", "save_answer">>
    /\ Cardinality({i \in 1..Len(conversation) :
                       conversation[i].type = "human"}) = 2
    /\ Len(file.entries) = 2
    /\ Last(file.entries).question = Q_abcde

\* Whether entry j of `entries` is strictly more similar to q than entry i is.
MoreSimilar(entries, j, i, q) ==
    LET ri == Ratio(Normalize(entries[i].question), Normalize(q))
        rj == Ratio(Normalize(entries[j].question), Normalize(q))
    IN  rj[1] * ri[2] > ri[1] * rj[2]

\* C13: a lookup on a readable store reports a miss, and leaves the
\* conversation as it is, exactly when no stored question is more than 0.9
\* similar to the normalized query; otherwise it reports a hit and returns
\* the answer of the oldest such entry, whatever the similarity of the later
\* ones.
C13_FirstMatchLookup ==
    [][(pc = "retriever" /\ Readable(file)) =>
         LET above == Matching(file.entries, Last(messages).content)
         IN  IF above = {}
             THEN /\ retrieved_answer_found' = "False"
                  /\ messages' = messages
             ELSE /\ retrieved_answer_found' = "True"
                  /\ Last(messages').type = "ai"
                  /\ Last(messages').content = file.entries[Least(above)].answer]_vars

\* C13's case: a hit on a store whose second entry is strictly more similar
\* to the query than the first, both above 0.9 and with different answers.
C13_Witness ==
    /\ pc = "END"
    /\ path = <<"retriever">>
    /\ Matching(file.entries, user_input) = {1, 2}
    /\ MoreSimilar(file.entries, 2, 1, user_input)
    /\ file.entries[1].answer # file.entries[2].answer
    /\ Last(messages).content = file.entries[1].answer

\* Whether the sequence s is a prefix of the sequence t.
IsPrefix(s, t) == Len(s) <= Len(t) /\ SubSeq(t, 1, Len(s)) = s

\* C14 as claimed: every step of a node of the graph leaves the conversation
\* it started from as a prefix of the conversation it produces.
C14_AppendOnlyConversation ==
    [][(pc \in {"retriever", "assistant", "tool_executor", "save_answer"})
         => IsPrefix(messages, messages')]_vars

\* C15 as claimed: whatever happens to a save, complete or cut short, a read
\* of memory.json after it succeeds and yields either the list a read before
\* the save yielded or that list with the new entry appended (and cut to
\* MAX_MEMORY entries).
C15_AtomicPersistence ==
    [][pc = "save_answer" =>
         /\ Readable(file')
         /\ \/ file'.entries = file.entries
            \/ /\ file'.entries # <<>>
               /\ Last(file'.entries) =
                      Entry(messages[MostRecentHuman(messages)].content,
                            Last(messages).content)
               /\ \E k \in 0..Len(file.entries) :
                      file'.entries =
                          SubSeq(file.entries, k + 1, Len(file.entries))
                              \o <<Last(file'.entries)>>]_vars

C17_EntriesNeverMutated ==
    [][/\ pc # "save_answer" => file' = file
       /\ pc = "save_answer" =>
            LET old == file.entries
                new == file'.entries
                k == Len(old) + 1 - Len(new)
            IN  /\ new # <<>>
                /\ k \in 0..Len(old)
                /\ new = SubSeq(old, k + 1, Len(old)) \o <<Last(new)>>
                /\ k > 0 => (Len(old) + 1 > MAX_MEMORY /\ Len(new) = MAX_MEMORY)]_vars

\* C17's case: a save into a full store has dropped the oldest entry, kept
\* the other one in place and put a new entry after it; the turn before it
\* was a lookup hit.
C17_Witness ==
    /\ pc = "END"
    /\ previous.path = <<"retriever">>
    /\ Len(fileAtStart.entries) = MAX_MEMORY
    /\ file.entries = Tail(fileAtStart.entries) \o <<Last(file.entries)>>
    /\ \A i \in 1..Len(fileAtStart.entries) :
          fileAtStart.entries[i] # Last(file.entries)

\* The number of times node n occurs in the list of nodes p.
Runs(p, n) == Cardinality({i \in 1..Len(p) : p[i] = n})

\* C18: every turn that starts ends (at END, or with the program stopped by
\* an exception), whatever the model returns; assistant runs at most once in
\* a turn and exactly once before a save, tool_executor never runs and no
\* tool is called, because the message assistant appends carries no tool
\* calls and the edge out of assistant then leads to save_answer.
C18_BoundedTurn ==
    /\ [](/\ pc # "tool_executor"
          /\ Runs(path, "tool_executor") = 0
          /\ results = <<>>
          /\ Runs(path, "assistant") <= 1
          /\ pc = "save_answer" => path = <<"retriever", "assistant">>)
    /\ [][(pc = "assistant" /\ ~response'.raised) =>
             /\ Last(messages').type = "ai"
             /\ Last(messages').tool_calls = <<>>
             /\ pc' = "save_answer"]_vars
    /\ (pc = "retriever") ~> (pc \in {"END", "crashed"})

\* C18's case: a cache-miss turn in which the model's output asked for a tool
\* call has ended after one model call and a save.
C18_Witness ==
    /\ pc = "END"
    /\ response.tool_calls # <<>>
    /\ path = <<"retriever", "assistant", "save_answer">>
    /\ prompt # <<>>

\* C19: a turn that has reached END has, when a stored question was more
\* than 0.9 similar to its query, run no save and left memory.json as it was
\* and, when none was, run assistant once and save_answer once and put one
\* entry after the old ones (less the oldest when the store was full). No
\* turn runs save_answer twice. Which of the two a turn is depends on the
\* store and the query alone: every turn starts with the flag unset.
C19_OneAppendPerTurn ==
    /\ [](Runs(path, "save_answer") <= 1)
    /\ []((pc = "END" /\ Matching(fileAtStart.entries, user_input) # {})
             => (/\ Runs(path, "save_answer") = 0
                 /\ file = fileAtStart))
    /\ []((pc = "END" /\ Matching(fileAtStart.entries, user_input) = {})
             => (/\ Runs(path, "assistant") = 1
                 /\ Runs(path, "save_answer") = 1
                 /\ file.entries # <<>>
                 /\ \E k \in {0, 1} :
                       /\ k = 1 <=> Len(fileAtStart.entries) = MAX_MEMORY
                       /\ file.entries =
                             SubSeq(fileAtStart.entries, k + 1,
                                    Len(fileAtStart.entries))
                                 \o <<Last(file.entries)>>))
    /\ [][(pc = "input" /\ pc' = "retriever")
             => retrieved_answer_found' = "None"]_vars

\* C19's case: the turn after a cache hit was a miss, called the model and
\* appended one entry.
C19_Witness ==
    /\ pc = "END"
    /\ previous.path = <<"retriever">>
    /\ path = <<"retriever", "assistant", "save_answer">>
    /\ prompt # <<>>
    /\ Len(file.entries) = Len(fileAtStart.entries) + 1

\* C20: while and after a turn runs whose input is exactly the input of the
\* turn before it, that turn having been a miss that was answered and saved,
\* the turn is at the retriever or has ended there: it is a hit, the content
\* of its last message is the answer printed for the turn before, neither the
\* model nor a tool has been called and memory.json is as it was.
C20_RepeatServedFromCache ==
    (/\ previous.path = <<"retriever", "assistant", "save_answer">>
     /\ user_input = previous.question
     /\ pc # "exited")
    => /\ pc \in {"retriever", "END", "input"}
       /\ pc \in {"END", "input"} =>
             /\ retrieved_answer_found = "True"
             /\ path = <<"retriever">>
             /\ Last(messages).type = "ai"
             /\ Last(messages).content = previous.answer
             /\ prompt = <<>>
             /\ response = NoResponse
             /\ results = <<>>
             /\ file = fileAtStart

\* C20's case: a question typed with capitals and blanks around it was
\* answered by the model and saved, typed again as it was, and answered from
\* the store.
C20_Witness ==
    /\ pc = "END"
    /\ path = <<"retriever">>
    /\ previous.path = <<"retriever", "assistant", "save_answer">>
    /\ user_input = previous.question
    /\ user_input = Q_ABCDE_padded
    /\ Last(messages).content = previous.answer

====
